---- MODULE Spec2Model ----
(***************************************************************************)
(* The two sfdroid IPC clients of android_hardware_libhardware:            *)
(*   - the sensor polling client   (modules/sfdroid_sensors)               *)
(*   - the buffer handle relay     (modules/sharebuffer)                   *)
(* modelled at the level of the system calls each handler issues.  Every   *)
(* handler is one action; the behaviour of the operating system and of the *)
(* peer during the call (which system calls fail, what the peer delivers)  *)
(* is an input of the action.  The system calls a handler made are kept in *)
(* the record of the most recent call, `call`.                             *)
(***************************************************************************)
EXTENDS Integers, Sequences, FiniteSets, TLC

VARIABLES
    socks,      \* the process's open sockets: descriptor -> socket state
    sigpipe,    \* the process-wide disposition of SIGPIPE
    proc,       \* "running", or "killed" once a signal terminated the process
    blocked,    \* the clients whose thread is blocked forever inside a call
    ctl,        \* the SensorPoll device: [open, fd, delay]
    m,          \* the sharebuffer private_module_t: [fd_renderer]
    fb_devs,    \* number of framebuffer device contexts currently open
    abi,        \* the build: [char_signed], whether plain char is a signed type
    shm,        \* the shmbuffer module: [gralloc, shm_fd, shm_ptr, devs, locked, region]
    call        \* the most recent call: operation, arguments, system calls, result

vars == <<socks, sigpipe, proc, blocked, ctl, m, fb_devs, abi, shm, call>>

----------------------------------------------------------------------------
(* Bounds of the model *)

\* largest count handed to poll()
MaxCount == 2
\* number of descriptors the process may hold open (its descriptor limit)
MaxFds == 3
\* number of framebuffer devices opened and not yet closed
MaxDevs == 2
\* the most bytes a socket holds unread between two calls
MaxUnread == 32

\* the longest payload the framing is applied to on its own
MaxPayload == 254

\* with both clients in one process: the samples of a poll, the device
\* contexts of the relay and the unread bytes a call may leave in a socket
MaxBothCount == 1
MaxBothDevs == 1
MaxBothUnread == 0

----------------------------------------------------------------------------
(* Program constants *)

ID_BASE == 0
MAX_NUM_SENSORS == 5
ID_ACCELERATION == ID_BASE + 0
ID_MAGNETIC_FIELD == ID_BASE + 1
ID_ORIENTATION == ID_BASE + 2
ID_TEMPERATURE == ID_BASE + 3
ID_PROXIMITY == ID_BASE + 4

\* the lowest descriptor a socket() can get: 0, 1 and 2 are the standard streams
FirstFd == 3

SENSORS_HANDLE_FILE == "/tmp/sfdroid/sensors_handle"
SHM_BUFFER_HANDLE_FILE == "/tmp/sfdroid//gralloc_buffer_handle"

\* sizeof(buff) in poll__poll
BUFF_SIZE == 256
\* sizeof(command) in poll__poll, poll__activate, poll__setDelay
COMMAND_SIZE == 128
\* sizeof(message_buffer) in recv_status
STATUS_SIZE == 3

\* the C strings of the program, as bytes
STR_get_accelerometer == <<103, 101, 116, 58, 97, 99, 99, 101, 108, 101, 114, 111, 109, 101, 116, 101, 114>>
STR_acceleration == <<97, 99, 99, 101, 108, 101, 114, 97, 116, 105, 111, 110>>
STR_magnetic_field == <<109, 97, 103, 110, 101, 116, 105, 99, 45, 102, 105, 101, 108, 100>>
STR_orientation == <<111, 114, 105, 101, 110, 116, 97, 116, 105, 111, 110>>
STR_temperature == <<116, 101, 109, 112, 101, 114, 97, 116, 117, 114, 101>>
STR_proximity == <<112, 114, 111, 120, 105, 109, 105, 116, 121>>
STR_UNKNOWN == <<60, 85, 78, 75, 78, 79, 87, 78, 62>>
STR_set == <<115, 101, 116, 58>>
STR_setDelay == <<115, 101, 116, 68, 101, 108, 97, 121, 58>>
STR_acceleration_colon == <<97, 99, 99, 101, 108, 101, 114, 97, 116, 105, 111, 110, 58>>
STR_OK == <<79, 75>>
STR_FA == <<70, 65>>

CH_colon == 58
CH_minus == 45
CH_plus == 43
CH_dot == 46
CH_0 == 48
CH_space == 32

----------------------------------------------------------------------------
(* Sequences of bytes *)

Min(a, b) == IF a < b THEN a ELSE b

Take(s, n) == SubSeq(s, 1, Min(n, Len(s)))

Drop(s, n) == SubSeq(s, Min(n, Len(s)) + 1, Len(s))

\* strlen(): the number of bytes before the first 0 byte of a buffer that holds one
strlen(buf) ==
    IF \E i \in 1..Len(buf) : buf[i] = 0
    THEN (CHOOSE i \in 1..Len(buf) : buf[i] = 0 /\ \A j \in 1..(i-1) : buf[j] # 0) - 1
    ELSE Len(buf)

\* the C string a buffer holds: its bytes before the first 0 byte
CStr(buf) == Take(buf, strlen(buf))

\* (char)n as stored in a one-byte object: the low 8 bits
ToByte(n) == n % 256

----------------------------------------------------------------------------
(* The system calls.  A handler threads a machine state                     *)
(*   st = [socks, sigpipe, log, ret, rdata, status]                        *)
(* through the calls it makes; ret is the value the last call returned,    *)
(* rdata the bytes the last recv stored, status "run" while the thread     *)
(* runs, "blocked" once it waits forever, "killed" once a signal ended     *)
(* the process.                                                            *)

Ev(sc, fd, arg, ret, data, fds) ==
    [sc |-> sc, fd |-> fd, arg |-> arg, ret |-> ret, data |-> data, fds |-> fds]

Logged(st, e) == [st EXCEPT !.log = Append(@, e)]

StartSt == [socks |-> socks, sigpipe |-> sigpipe, log |-> <<>>,
            ret |-> 0, rdata |-> <<>>, status |-> "run"]

OpenFds(st) == DOMAIN st.socks

FreeFds(st) == (FirstFd .. (FirstFd + MaxFds - 1)) \ OpenFds(st)

LowestFree(st) == CHOOSE f \in FreeFds(st) : \A g \in FreeFds(st) : f <= g

\* socket(AF_UNIX, SOCK_STREAM, 0): the lowest free descriptor, or -1 when the
\* system refuses (ok = FALSE) or the process has no descriptor left
sys_socket(st, ok) ==
    IF ok /\ FreeFds(st) # {}
    THEN LET fd == LowestFree(st)
             s == [path |-> "", rcvtimeo |-> 0, inbuf |-> <<>>, connected |-> FALSE]
         IN Logged([st EXCEPT !.socks = [f \in OpenFds(st) \cup {fd} |->
                                            IF f = fd THEN s ELSE st.socks[f]],
                              !.ret = fd],
                   Ev("socket", -1, 0, fd, <<>>, <<>>))
    ELSE Logged([st EXCEPT !.ret = -1], Ev("socket", -1, 0, -1, <<>>, <<>>))

\* signal(SIGPIPE, SIG_IGN)
sys_signal_ign(st) ==
    Logged([st EXCEPT !.sigpipe = "SIG_IGN", !.ret = 0],
           Ev("signal", -1, 0, 0, <<>>, <<>>))

\* connect(fd, path): succeeds when the peer listens on the path (ok)
sys_connect(st, fd, path, ok) ==
    IF ok
    THEN Logged([st EXCEPT !.socks[fd].path = path, !.socks[fd].connected = TRUE,
                           !.ret = 0],
                Ev("connect", fd, 0, 0, <<>>, <<>>))
    ELSE Logged([st EXCEPT !.ret = -1], Ev("connect", fd, 0, -1, <<>>, <<>>))

\* setsockopt(fd, SOL_SOCKET, SO_RCVTIMEO, secs)
sys_setsockopt_rcvtimeo(st, fd, secs, ok) ==
    IF ok
    THEN Logged([st EXCEPT !.socks[fd].rcvtimeo = secs, !.ret = 0],
                Ev("setsockopt", fd, secs, 0, <<>>, <<>>))
    ELSE Logged([st EXCEPT !.ret = -1], Ev("setsockopt", fd, secs, -1, <<>>, <<>>))

\* usleep(usec)
sys_usleep(st, usec) == Logged([st EXCEPT !.ret = 0], Ev("usleep", -1, usec, 0, <<>>, <<>>))

\* close(fd): releases the descriptor when it is open, fails (EBADF) otherwise
sys_close(st, fd) ==
    IF fd \in OpenFds(st)
    THEN Logged([st EXCEPT !.socks = [f \in OpenFds(st) \ {fd} |-> st.socks[f]],
                           !.ret = 0],
                Ev("close", fd, 0, 0, <<>>, <<>>))
    ELSE Logged([st EXCEPT !.ret = -1], Ev("close", fd, 0, -1, <<>>, <<>>))

\* send(fd, data, len, MSG_NOSIGNAL): how = "ok" sends everything, "epipe" (the peer
\* has closed) and "err" fail; MSG_NOSIGNAL keeps SIGPIPE from being raised
sys_send_nosignal(st, fd, data, how) ==
    IF fd \in OpenFds(st) /\ how = "ok"
    THEN Logged([st EXCEPT !.ret = Len(data)],
                Ev("send", fd, Len(data), Len(data), data, <<>>))
    ELSE Logged([st EXCEPT !.ret = -1], Ev("send", fd, Len(data), -1, data, <<>>))

\* sendmsg(fd, msg, 0) with the descriptors fds as SCM_RIGHTS control data.
\* Without MSG_NOSIGNAL a write to a stream the peer has closed raises SIGPIPE,
\* which terminates the process unless the signal is ignored.
sys_sendmsg(st, fd, data, fds, how) ==
    IF fd \in OpenFds(st) /\ how = "ok"
    THEN Logged([st EXCEPT !.ret = Len(data)],
                Ev("sendmsg", fd, Len(data), Len(data), data, fds))
    ELSE IF fd \in OpenFds(st) /\ how = "epipe" /\ st.sigpipe # "SIG_IGN"
    THEN Logged([st EXCEPT !.status = "killed"],
                Ev("sendmsg_sigpipe", fd, Len(data), 0, data, fds))
    ELSE Logged([st EXCEPT !.ret = -1], Ev("sendmsg", fd, Len(data), -1, data, fds))

\* recv(fd, buf, n, flags).  pe is what the peer does while the call waits:
\* it delivers pe.deliver, and when that leaves the call short of data it stays
\* silent (pe.then = "silent"), has closed ("eof") or the connection fails ("reset").
\* want is the number of bytes the call waits for: 1 without MSG_WAITALL, n with it.
sys_recv(st, fd, n, waitall, pe) ==
    IF fd \notin OpenFds(st)
    THEN Logged([st EXCEPT !.ret = -1, !.rdata = <<>>], Ev("recv", fd, n, -1, <<>>, <<>>))
    ELSE
    LET avail == st.socks[fd].inbuf \o pe.deliver
        want == IF waitall THEN n ELSE Min(n, 1)
        got == Take(avail, n)
        st1 == [st EXCEPT !.socks[fd].inbuf = Drop(avail, n)]
        done(s, r, d) == Logged([s EXCEPT !.ret = r, !.rdata = d],
                                Ev("recv", fd, n, r, d, <<>>))
    IN IF Len(avail) >= want THEN done(st1, Len(got), got)
       ELSE IF pe.then = "eof" THEN done(st1, Len(got), got)
       ELSE IF Len(got) > 0 /\ (pe.then = "reset" \/ st.socks[fd].rcvtimeo > 0)
            THEN done(st1, Len(got), got)
       ELSE IF pe.then = "reset" THEN done(st1, -1, <<>>)
       ELSE IF st.socks[fd].rcvtimeo > 0 THEN done(st1, -1, <<>>)
       ELSE Logged([st1 EXCEPT !.status = "blocked"], Ev("recv_blocks", fd, n, 0, <<>>, <<>>))

----------------------------------------------------------------------------
(* The sensor client: connect_to_sfdroid *)

\* connect_to_sfdroid without the check of connect()'s result
connect_to_sfdroid_unchecked(st, ce) ==
    LET s1 == sys_socket(st, ce.socket)
    IN IF s1.ret < 0 THEN [s1 EXCEPT !.ret = -1]
       ELSE
       LET fd == s1.ret
           s3 == sys_connect(sys_signal_ign(s1), fd, SENSORS_HANDLE_FILE, ce.connect)
       IN [sys_setsockopt_rcvtimeo(s3, fd, 1, ce.setsockopt) EXCEPT !.ret = fd]

\* ce = [socket, connect, setsockopt]: which of the three system calls succeed
connect_to_sfdroid(st, ce) ==
    LET s1 == sys_socket(st, ce.socket)
    IN IF s1.ret < 0 THEN [s1 EXCEPT !.ret = -1]
       ELSE
       LET fd == s1.ret
           s2 == sys_signal_ign(s1)
           s3 == sys_connect(s2, fd, SENSORS_HANDLE_FILE, ce.connect)
       IN IF s3.ret < 0
          THEN [sys_close(sys_usleep(s3, 100000), fd) EXCEPT !.ret = -1]
          ELSE [sys_setsockopt_rcvtimeo(s3, fd, 1, ce.setsockopt) EXCEPT !.ret = fd]

\* the outcomes of a connection attempt
ConnEnvs ==
    { [socket |-> FALSE, connect |-> FALSE, setsockopt |-> FALSE],
      [socket |-> TRUE,  connect |-> FALSE, setsockopt |-> FALSE],
      [socket |-> TRUE,  connect |-> TRUE,  setsockopt |-> FALSE],
      [socket |-> TRUE,  connect |-> TRUE,  setsockopt |-> TRUE] }

\* _sensorIds and _sensorIdToName
sensorIds ==
    << [name |-> STR_acceleration,   id |-> ID_ACCELERATION],
       [name |-> STR_magnetic_field, id |-> ID_MAGNETIC_FIELD],
       [name |-> STR_orientation,    id |-> ID_ORIENTATION],
       [name |-> STR_temperature,    id |-> ID_TEMPERATURE],
       [name |-> STR_proximity,      id |-> ID_PROXIMITY] >>

sensorIdToName(id) ==
    IF \E nn \in 1..MAX_NUM_SENSORS : sensorIds[nn].id = id
    THEN sensorIds[CHOOSE nn \in 1..MAX_NUM_SENSORS :
                      sensorIds[nn].id = id
                      /\ \A k \in 1..(nn-1) : sensorIds[k].id # id].name
    ELSE STR_UNKNOWN

----------------------------------------------------------------------------
(* Formatting: snprintf("%d"), snprintf("%lld") *)

RECURSIVE Digits(_)
Digits(n) == IF n < 10 THEN <<CH_0 + n>> ELSE Append(Digits(n \div 10), CH_0 + (n % 10))

\* the decimal text of a signed integer
FmtInt(n) == IF n < 0 THEN <<CH_minus>> \o Digits(0 - n) ELSE Digits(n)

\* snprintf(command, size, ...): the text cut to size-1 bytes, then a 0 byte
snprintf(size, text) == Append(Take(text, size - 1), 0)

----------------------------------------------------------------------------
(* Parsing: sscanf(buff, "acceleration:%g:%g:%g:%lld", ...) *)

IsDigit(c) == c >= CH_0 /\ c <= CH_0 + 9

IsSpace(c) == c = CH_space \/ (c >= 9 /\ c <= 13)

RECURSIVE SkipWhile(_, _, _)
\* the first position at or after p whose byte is not in class k ("digit", "space")
SkipWhile(s, p, k) ==
    IF p <= Len(s) /\ ((k = "digit" /\ IsDigit(s[p])) \/ (k = "space" /\ IsSpace(s[p])))
    THEN SkipWhile(s, p + 1, k)
    ELSE p

RECURSIVE DigitsVal(_, _, _)
\* the value of the decimal digits s[p..q-1]
DigitsVal(s, p, q) ==
    IF p >= q THEN 0 ELSE DigitsVal(s, p, q - 1) * 10 + (s[q - 1] - CH_0)

RECURSIVE Pow10(_)
Pow10(k) == IF k = 0 THEN 1 ELSE 10 * Pow10(k - 1)

RECURSIVE Gcd(_, _)
Gcd(a, b) == IF b = 0 THEN a ELSE Gcd(b, a % b)

\* the number num/den in lowest terms
Ratio(num, den) ==
    LET a == IF num < 0 THEN 0 - num ELSE num
        g == Gcd(a, den)
    IN [num |-> num \div g, den |-> den \div g]

\* a literal of the format: the position after it, or 0 when the input differs
MatchLit(s, p, lit) ==
    IF p > 0 /\ p + Len(lit) - 1 <= Len(s) /\ SubSeq(s, p, p + Len(lit) - 1) = lit
    THEN p + Len(lit) ELSE 0

\* what a conversion hands back when the input does not match
NoMatch == [ok |-> FALSE, next |-> 0, val |-> 0]

\* %g, last step: the value of [sign] s[p1..p2-1] [. s[p2+1..p3-1]]
FloatValue(s, neg, p1, p2, dot, p3) ==
    LET nfrac == IF dot THEN p3 - (p2 + 1) ELSE 0
        mag == DigitsVal(s, p1, p2) * Pow10(nfrac)
               + (IF dot THEN DigitsVal(s, p2 + 1, p3) ELSE 0)
    IN IF (p2 - p1) + nfrac = 0
       THEN [NoMatch EXCEPT !.val = Ratio(0, 1)]
       ELSE [ok |-> TRUE, next |-> p3,
             val |-> Ratio(IF neg THEN 0 - mag ELSE mag, Pow10(nfrac))]

\* %g after the integer digits, which end before p2: the fraction, if any
FloatFraction(s, neg, p1, p2, dot) ==
    FloatValue(s, neg, p1, p2, dot, IF dot THEN SkipWhile(s, p2 + 1, "digit") ELSE p2)

\* %g after the sign, which ends before p1: the integer digits
FloatDigits(s, neg, p1) ==
    FloatFraction(s, neg, p1, SkipWhile(s, p1, "digit"),
                  LET p2 == SkipWhile(s, p1, "digit") IN p2 <= Len(s) /\ s[p2] = CH_dot)

\* %g after the white space, which ends before p0: the sign
FloatSign(s, p0) ==
    FloatDigits(s, p0 <= Len(s) /\ s[p0] = CH_minus,
                IF p0 <= Len(s) /\ s[p0] \in {CH_minus, CH_plus} THEN p0 + 1 ELSE p0)

\* %g on decimal input [sign] digits [. digits]: [ok, next, val]
ScanFloat(s, p) ==
    IF p = 0 THEN [NoMatch EXCEPT !.val = Ratio(0, 1)]
    ELSE FloatSign(s, SkipWhile(s, p, "space"))

\* %lld after the sign, which ends before p1: the digits, which end before p2
IntDigits(s, neg, p1, p2) ==
    IF p2 = p1 THEN NoMatch
    ELSE [ok |-> TRUE, next |-> p2,
          val |-> IF neg THEN 0 - DigitsVal(s, p1, p2) ELSE DigitsVal(s, p1, p2)]

\* %lld after the white space, which ends before p0
IntSign(s, p0, p1) ==
    IntDigits(s, p0 <= Len(s) /\ s[p0] = CH_minus, p1, SkipWhile(s, p1, "digit"))

\* %lld: [sign] digits: [ok, next, val]
ScanInt(s, p) ==
    IF p = 0 THEN NoMatch
    ELSE LET p0 == SkipWhile(s, p, "space")
         IN IntSign(s, p0,
                    IF p0 <= Len(s) /\ s[p0] \in {CH_minus, CH_plus} THEN p0 + 1 ELSE p0)

\* the result of sscanf once its four conversions f1, f2, f3, t are known:
\* n is the number of conversions made before the first that failed
\* the first two conversions stored in each other's place
sscanf_result_yx(f1, f2, f3, t) ==
    [n |-> IF ~f1.ok THEN 0 ELSE IF ~f2.ok THEN 1 ELSE IF ~f3.ok THEN 2
           ELSE IF ~t.ok THEN 3 ELSE 4,
     params |-> <<f2.val, f1.val, f3.val>>, timestamp |-> t.val]

sscanf_result(f1, f2, f3, t) ==
    [n |-> IF ~f1.ok THEN 0 ELSE IF ~f2.ok THEN 1 ELSE IF ~f3.ok THEN 2
           ELSE IF ~t.ok THEN 3 ELSE 4,
     params |-> <<f1.val, f2.val, f3.val>>, timestamp |-> t.val]

\* ":%lld" after the third %g
sscanf_timestamp(str, f1, f2, f3) ==
    sscanf_result(f1, f2, f3, ScanInt(str, MatchLit(str, f3.next, <<CH_colon>>)))

\* ":%g" after the second %g
sscanf_z(str, f1, f2) ==
    sscanf_timestamp(str, f1, f2, ScanFloat(str, MatchLit(str, f2.next, <<CH_colon>>)))

\* ":%g" after the first %g
sscanf_y(str, f1) ==
    sscanf_z(str, f1, ScanFloat(str, MatchLit(str, f1.next, <<CH_colon>>)))

\* sscanf(buff, "acceleration:%g:%g:%g:%lld", params+0, params+1, params+2, &timestamp)
sscanf_acceleration(str) ==
    sscanf_y(str, ScanFloat(str, MatchLit(str, 1, STR_acceleration_colon)))

----------------------------------------------------------------------------
(* The sensor client: poll__poll *)

\* the value of a char object holding byte b, as the build reads it
CharVal(b) == IF abi.char_signed /\ b >= 128 THEN b - 256 ELSE b

\* a size_t larger than any buffer: what a negative int becomes as a size_t
SIZE_HUGE == 2147483647

\* the implicit conversion of an int to the size_t length of recv()
SizeT(n) == IF n < 0 THEN SIZE_HUGE ELSE n

\* what a handler hands back: the machine state, the channel slot, the return
\* value, the event records written to data, and whether the script of peer
\* behaviour ran out before the handler ended
Result(st, fd, ret, data) ==
    [st |-> st, fd |-> fd, ret |-> ret, data |-> data, starved |-> FALSE]

Starved(st, fd) == [Result(st, fd, 0, <<>>) EXCEPT !.starved = TRUE]

\* poll_fail without ctl->fd = -1
poll_fail_keeps_slot(st, fd, ret, data) == Result(sys_close(st, fd), fd, ret, data)

\* close(ctl->fd); ctl->fd = -1; return ret;
poll_fail(st, fd, ret, data) == Result(sys_close(st, fd), -1, ret, data)

\* recv(fd, buf, n, 0) of a kernel that finds buf + n outside the address space
sys_recv_efault(st, fd, n) ==
    Logged([st EXCEPT !.ret = -1, !.rdata = <<>>], Ev("recv", fd, n, -1, <<>>, <<>>))

\* a write past the end of buff[256]: the stack frame of poll__poll is
\* overwritten with bytes of the peer, and what follows is undefined. The
\* process is stopped (stack protector, bad return address), or the call
\* returns what the overwritten i holds: a negative value or one above count.
poll_smashed(st, fd, count, data, how) ==
    LET s1 == Logged(st, Ev("stack_smashed", fd, 0, 0, <<>>, <<>>))
    IN IF how = "crash" THEN Result([s1 EXCEPT !.status = "killed"], fd, 0, data)
       ELSE IF how = "ret_neg" THEN Result(s1, fd, -1, data)
       ELSE Result(s1, fd, count + 1, data)

\* ALOGE("unsupported command: %s", buff); return i;
poll_unsupported(st, fd, i, data) == Result(st, fd, i, data)

RECURSIVE poll_loop(_, _, _, _, _, _, _)
\* the for loop of poll__poll from slot i on; envs[i+1] is what the system and
\* the peer do during slot i
poll_loop(st, fd, delay, count, i, envs, data) ==
    IF i >= count THEN Result(st, fd, count, data)
    ELSE IF i + 1 > Len(envs) THEN Starved(st, fd)
    ELSE
    LET e == envs[i + 1]
        s0 == sys_usleep(st, delay \div 1000)
        command == snprintf(COMMAND_SIZE, STR_get_accelerometer)
        sync0 == ToByte(strlen(command) + 1)
        s1 == sys_send_nosignal(s0, fd, <<sync0>>, e.s1)
        s2 == sys_send_nosignal(s1, fd, Take(command, strlen(command) + 1), e.s2)
        s3 == sys_recv(s2, fd, 1, FALSE, e.r1)
        \* syncbuf[0] keeps the byte sent when the recv stored nothing
        sync1 == IF s3.ret >= 1 THEN s3.rdata[1] ELSE sync0
        n == SizeT(CharVal(sync1))
        s4 == IF n = SIZE_HUGE /\ e.huge = "efault" THEN sys_recv_efault(s3, fd, n)
              ELSE sys_recv(s3, fd, n, FALSE, e.r2)
        len == s4.ret
        \* buff[len] = 0 ends the string, unless an earlier 0 byte does
        p == sscanf_acceleration(CStr(Take(s4.rdata, len)))
        ev == [sensor |-> ID_ACCELERATION,
               x |-> p.params[1], y |-> p.params[2], z |-> p.params[3],
               timestamp |-> p.timestamp]
    IN IF s1.ret < 0 THEN poll_fail(s1, fd, i, data)
       ELSE IF s2.ret < 0 THEN poll_fail(s2, fd, i, data)
       ELSE IF s3.status # "run" THEN Result(s3, fd, 0, data)
       ELSE IF s3.ret < 0 THEN poll_fail(s3, fd, i, data)
       ELSE IF s4.status # "run" THEN Result(s4, fd, 0, data)
       ELSE IF s4.ret < 0 THEN poll_fail(s4, fd, i, data)
       ELSE IF len >= BUFF_SIZE THEN poll_smashed(s4, fd, count, data, e.smash)
       ELSE IF p.n = 4 THEN poll_loop(s4, fd, delay, count, i + 1, envs, Append(data, ev))
       ELSE poll_unsupported(s4, fd, i, data)

\* if (ctl->fd < 0) ctl->fd = connect_to_sfdroid();  ret is the slot afterwards
\* a second connection attempt when the first one failed
sensor_slot_retry(st, fd, ce) ==
    IF fd >= 0 THEN [st EXCEPT !.ret = fd]
    ELSE IF connect_to_sfdroid(st, ce).ret < 0
    THEN connect_to_sfdroid(connect_to_sfdroid(st, ce), ce)
    ELSE connect_to_sfdroid(st, ce)

sensor_slot(st, fd, ce) ==
    IF fd < 0 THEN connect_to_sfdroid(st, ce) ELSE [st EXCEPT !.ret = fd]

\* poll__poll(dev, data, count)
poll__poll_run(count, ce, envs) ==
    LET c0 == sensor_slot(StartSt, ctl.fd, ce)
        fd == c0.ret
    IN IF fd >= 0 THEN poll_loop(c0, fd, ctl.delay, count, 0, envs, <<>>)
       ELSE Result(c0, fd, 0, <<>>)

----------------------------------------------------------------------------
(* The sensor client: poll__activate and poll__setDelay *)

\* the two sends of a command: the sync byte, then the command with its 0 byte
\* the command segment sent whatever became of the prefix
send_command_unchecked(st, fd, command, e) ==
    LET sync0 == ToByte(strlen(command) + 1)
        s1 == sys_send_nosignal(st, fd, <<sync0>>, e.s1)
        s2 == sys_send_nosignal([s1 EXCEPT !.ret = 0], fd,
                                Take(command, strlen(command) + 1), e.s2)
    IN IF s1.ret < 0 \/ s2.ret < 0 THEN Result(sys_close(s2, fd), -1, -1, <<>>)
       ELSE Result(s2, fd, 0, <<>>)

send_command(st, fd, command, e) ==
    LET sync0 == ToByte(strlen(command) + 1)
        s1 == sys_send_nosignal(st, fd, <<sync0>>, e.s1)
        s2 == sys_send_nosignal(s1, fd, Take(command, strlen(command) + 1), e.s2)
    IN IF s1.ret < 0 THEN Result(sys_close(s1, fd), -1, -1, <<>>)
       ELSE IF s2.ret < 0 THEN Result(sys_close(s2, fd), -1, -1, <<>>)
       ELSE Result(s2, fd, 0, <<>>)

\* poll__activate reporting an error when the peer is absent
poll__activate_run_strict(handle, enabled, ce, e) ==
    LET c0 == sensor_slot(StartSt, ctl.fd, ce)
        fd == c0.ret
        command == snprintf(COMMAND_SIZE,
                            STR_set \o sensorIdToName(handle) \o <<CH_colon>>
                            \o FmtInt(IF enabled # 0 THEN 1 ELSE 0))
    IN IF handle = ID_ACCELERATION /\ fd >= 0 THEN send_command(c0, fd, command, e)
       ELSE Result(c0, fd, -1, <<>>)

\* poll__activate(dev, handle, enabled)
poll__activate_run(handle, enabled, ce, e) ==
    LET c0 == sensor_slot(StartSt, ctl.fd, ce)
        fd == c0.ret
        command == snprintf(COMMAND_SIZE,
                            STR_set \o sensorIdToName(handle) \o <<CH_colon>>
                            \o FmtInt(IF enabled # 0 THEN 1 ELSE 0))
    IN IF handle = ID_ACCELERATION
       THEN IF fd >= 0 THEN send_command(c0, fd, command, e)
            ELSE Result(c0, fd, 0, <<>>)
       ELSE Result(c0, fd, -1, <<>>)

\* ctl->delay = ns kept for the supported kind only
stored_delay_supported(delay, handle, ns) == IF handle = ID_ACCELERATION THEN ns ELSE delay

\* ctl->delay = ns: what poll__setDelay leaves in ctl->delay, which held delay
stored_delay(delay, handle, ns) == ns

\* poll__setDelay(dev, handle, ns); ctl->delay = ns is the action's assignment
poll__setDelay_run(handle, ns, ce, e) ==
    LET c0 == sensor_slot(StartSt, ctl.fd, ce)
        fd == c0.ret
        command == snprintf(COMMAND_SIZE,
                            STR_setDelay \o sensorIdToName(handle) \o <<CH_colon>>
                            \o FmtInt(ns))
    IN IF handle = ID_ACCELERATION
       THEN IF fd >= 0 THEN send_command(c0, fd, command, e)
            ELSE Result(c0, fd, 0, <<>>)
       ELSE Result(c0, fd, -1, <<>>)

-----------------------------------------------------------------------------
(* The framing of the sensor client on its own: the two sends every        *)
(* handler makes of a command text, and the two receives poll__poll makes  *)
(* of the bytes of a stream                                                *)

\* snprintf(command, 128, ...); syncbuf[0] = strlen(command) + 1;
\* send(fd, syncbuf, 1); send(fd, command, strlen(command) + 1), both sent whole
frame_command(text) ==
    LET command == snprintf(COMMAND_SIZE, text)
    IN << Ev("send", -1, 1, 1, <<ToByte(strlen(command) + 1)>>, <<>>),
          Ev("send", -1, strlen(command) + 1, strlen(command) + 1,
             Take(command, strlen(command) + 1), <<>>) >>

\* recv(fd, syncbuf, 1); recv(fd, buff, syncbuf[0]) on a stream that holds
\* at least one byte and whose bytes have all arrived
read_frame(stream) ==
    LET n == SizeT(CharVal(stream[1]))
        got == Take(Drop(stream, 1), n)
    IN << Ev("recv", -1, 1, 1, <<stream[1]>>, <<>>),
          Ev("recv", -1, n, Len(got), got, <<>>) >>

----------------------------------------------------------------------------
(* The buffer relay client: connect_to_renderer, send_native_handle,        *)
(* recv_status, fb_post                                                    *)

\* ce = [socket, connect]: which of the two system calls succeed
\* the socket of a failed connect left open
connect_to_renderer_leaky(st, ce) ==
    LET s1 == sys_socket(st, ce.socket)
    IN IF s1.ret < 0 THEN [s1 EXCEPT !.ret = -1]
       ELSE
       LET fd == s1.ret
           s2 == sys_connect(s1, fd, SHM_BUFFER_HANDLE_FILE, ce.connect)
       IN IF s2.ret < 0 THEN [s2 EXCEPT !.ret = -1]
          ELSE [s2 EXCEPT !.ret = fd]

connect_to_renderer(st, ce) ==
    LET s1 == sys_socket(st, ce.socket)
    IN IF s1.ret < 0 THEN [s1 EXCEPT !.ret = -1]
       ELSE
       LET fd == s1.ret
           s2 == sys_connect(s1, fd, SHM_BUFFER_HANDLE_FILE, ce.connect)
       IN IF s2.ret < 0 THEN [sys_close(s2, fd) EXCEPT !.ret = -1]
          ELSE [s2 EXCEPT !.ret = fd]

\* sizeof(struct cmsghdr) and the alignment of control messages, in bytes
CMSGHDR_SIZE == IF abi.lp64 THEN 16 ELSE 12

CMSG_ALIGNMENT == IF abi.lp64 THEN 8 ELSE 4

CMSG_ALIGN(len) == ((len + CMSG_ALIGNMENT - 1) \div CMSG_ALIGNMENT) * CMSG_ALIGNMENT

CMSG_SPACE(len) == CMSG_ALIGN(CMSGHDR_SIZE) + CMSG_ALIGN(len)

\* sizeof(int), sizeof(struct buffer_info_t), sizeof(native_handle_t)
SIZEOF_INT == 4
SIZEOF_BUFFER_INFO == 16
SIZEOF_NATIVE_HANDLE == 12

\* the descriptors of the handle closed once they were sent
send_native_handle_consuming(st, fd, handle, info, how) ==
    LET message_buffer == <<info.width, info.height, info.stride, info.pixel_format,
                            handle.version, handle.numFds, handle.numInts>>
                          \o handle.data
        carried == (CMSG_SPACE(SIZEOF_INT * handle.numFds) - CMSG_ALIGN(CMSGHDR_SIZE))
                   \div SIZEOF_INT
        ancillary == [i \in 1..carried |-> IF i <= handle.numFds THEN handle.data[i] ELSE 0]
        s1 == sys_sendmsg(st, fd, message_buffer, ancillary, how)
    IN IF s1.status = "run" /\ handle.numFds > 0
       THEN [sys_close(s1, handle.data[1]) EXCEPT !.ret = s1.ret]
       ELSE s1

\* the message without the descriptor numbers of the handle
send_native_handle_ints_only(st, fd, handle, info, how) ==
    LET message_buffer == <<info.width, info.height, info.stride, info.pixel_format,
                            handle.version, handle.numFds, handle.numInts>>
                          \o Drop(handle.data, handle.numFds)
        carried == (CMSG_SPACE(SIZEOF_INT * handle.numFds) - CMSG_ALIGN(CMSGHDR_SIZE))
                   \div SIZEOF_INT
        ancillary == [i \in 1..carried |-> IF i <= handle.numFds THEN handle.data[i] ELSE 0]
    IN sys_sendmsg(st, fd, message_buffer, ancillary, how)

\* send_native_handle(fd, handle, width, height, stride, pixel_format).
\* The message is kept as 32-bit words; the descriptors the control message
\* carries are the ints its cmsg_len covers, read from the zeroed ancillary
\* buffer the loop filled with handle->data[0 .. numFds-1].
send_native_handle(st, fd, handle, info, how) ==
    LET buffer_size == SIZEOF_BUFFER_INFO + SIZEOF_NATIVE_HANDLE
                       + SIZEOF_INT * (handle.numFds + handle.numInts)
        handle_size == SIZEOF_NATIVE_HANDLE
                       + SIZEOF_INT * (handle.numFds + handle.numInts)
        handle_words == <<handle.version, handle.numFds, handle.numInts>> \o handle.data
        message_buffer == <<info.width, info.height, info.stride, info.pixel_format>>
                          \o Take(handle_words, handle_size \div SIZEOF_INT)
        msg_controllen == CMSG_SPACE(SIZEOF_INT * handle.numFds)
        cmsg_len == msg_controllen
        carried == (cmsg_len - CMSG_ALIGN(CMSGHDR_SIZE)) \div SIZEOF_INT
        ancillary == [i \in 1..carried |-> IF i <= handle.numFds THEN handle.data[i] ELSE 0]
    IN sys_sendmsg(st, fd, Take(message_buffer, buffer_size \div SIZEOF_INT), ancillary, how)

\* recv_status(fd, &failed): [st, ret, failed]; e.r is the peer's behaviour, e.stack
\* the bytes message_buffer holds before the recv (it is not initialised)
recv_status(st, fd, e) ==
    LET s1 == sys_recv(st, fd, STATUS_SIZE, TRUE, e.r)
        got == IF s1.ret > 0 THEN s1.rdata ELSE <<>>
        message_buffer == got \o Drop(e.stack, Len(got))
        out(r, f) == [st |-> s1, ret |-> r, failed |-> f]
        unset == [set |-> FALSE, val |-> 0]
    IN IF s1.status # "run" THEN out(0, unset)
       ELSE IF s1.ret < 0 THEN out(-1, unset)
       ELSE IF message_buffer[3] # 0 THEN out(-1, unset)
       ELSE IF CStr(message_buffer) = STR_OK THEN out(0, [set |-> TRUE, val |-> 0])
       ELSE out(-1, [set |-> TRUE, val |-> 1])

\* exit_error: close(m->fd_renderer); m->fd_renderer = -1; return -1;
\* exit_error closing the descriptor a second time
exit_error_twice(st, fd) == Result(sys_close(sys_close(st, fd), fd), -1, -1, <<>>)

exit_error(st, fd) == Result(sys_close(st, fd), -1, -1, <<>>)

\* renderer_slot connecting on every call
renderer_slot_always(st, fd, ce) == connect_to_renderer(st, ce)

\* if (m->fd_renderer < 0) m->fd_renderer = connect_to_renderer();
renderer_slot(st, fd, ce) ==
    IF fd < 0 THEN connect_to_renderer(st, ce) ELSE [st EXCEPT !.ret = fd]

\* fb_post(dev, buffer, width, height, stride, pixel_format)
fb_post_run(buffer, info, ce, e) ==
    LET c0 == renderer_slot(StartSt, m.fd_renderer, ce)
        fd == c0.ret
        s1 == send_native_handle(c0, fd, buffer, info, e.send)
        r == recv_status(s1, fd, e)
    IN IF fd >= 0
       THEN IF s1.status # "run" THEN Result(s1, fd, 0, <<>>)
            ELSE IF s1.ret < 0 THEN exit_error(s1, fd)
            ELSE IF r.st.status # "run" THEN Result(r.st, fd, 0, <<>>)
            ELSE IF r.ret < 0 THEN exit_error(r.st, fd)
            ELSE Result(r.st, fd, 0, <<>>)
       ELSE Result(c0, fd, 0, <<>>)

----------------------------------------------------------------------------
(* The shared-memory copy-out sink (modules/shmbuffer): fb_post locks the   *)
(* buffer through the gralloc module, copies its pixels into the mapped    *)
(* file and unlocks it.  s is the module state                             *)
(*   [gralloc, shm_fd, shm_ptr, devs, locked, region]:                     *)
(* whether the_gralloc_module is set, the two shm fields of                *)
(* private_module_t, the device contexts open, the buffers locked and what *)
(* the mapped region holds.                                                *)

ShmResult(s, log, ret, status) == [shm |-> s, log |-> log, ret |-> ret, status |-> status]

\* the_gralloc_module->lock(..., &buffer_vaddr): its result is not looked at
gralloc_lock(s, buffer, ok) ==
    IF ok THEN [s EXCEPT !.locked = @ \cup {buffer}] ELSE s

\* the_gralloc_module->unlock(the_gralloc_module, buffer)
gralloc_unlock(s, buffer) == [s EXCEPT !.locked = @ \ {buffer}]

\* fb_post with the early return of the path that is not ready
shm_fb_post_run_early(s, buffer, lock_ok, ub) ==
    LET lock == Ev("lock", -1, 0, IF lock_ok THEN 0 ELSE -1, <<>>, <<>>)
        unlock == Ev("unlock", -1, 0, 0, <<>>, <<>>)
        s1 == gralloc_lock(s, buffer, lock_ok)
    IN IF ~s.gralloc THEN ShmResult(s, <<>>, -1, "run")
       ELSE IF s.shm_fd # -1 /\ s.shm_ptr # "MAP_FAILED"
       THEN ShmResult(gralloc_unlock([s1 EXCEPT !.region = "pixels"], buffer),
                      <<lock, Ev("memcpy", -1, 0, 0, <<>>, <<>>), unlock>>, 0, "run")
       ELSE ShmResult(s1, <<lock, Ev("not_ready", s.shm_fd, 0, 0, <<>>, <<>>)>>, 0, "run")

\* fb_post(dev, buffer) of shmbuffer.cpp.  memcpy writes through shm_ptr, which
\* is NULL until a device open mapped the file, and reads through
\* buffer_vaddr, which a failed lock left without a value: ub is what the
\* read of that pointer leads to
shm_fb_post_run(s, buffer, lock_ok, ub) ==
    LET lock == Ev("lock", -1, 0, IF lock_ok THEN 0 ELSE -1, <<>>, <<>>)
        unlock == Ev("unlock", -1, 0, 0, <<>>, <<>>)
        s1 == gralloc_lock(s, buffer, lock_ok)
    IN IF ~s.gralloc THEN ShmResult(s, <<>>, -1, "run")
       ELSE IF s.shm_fd # -1 /\ s.shm_ptr # "MAP_FAILED"
       THEN IF s.shm_ptr = "NULL" \/ (~lock_ok /\ ub = "crash")
            THEN ShmResult(s1, <<lock, Ev("memcpy_sigsegv", -1, 0, 0, <<>>, <<>>)>>,
                           0, "killed")
            ELSE ShmResult(gralloc_unlock([s1 EXCEPT !.region =
                                               IF lock_ok THEN "pixels" ELSE "garbage"],
                                          buffer),
                           <<lock, Ev("memcpy", -1, 0, 0, <<>>, <<>>), unlock>>, 0, "run")
       ELSE ShmResult(gralloc_unlock(s1, buffer),
                      <<lock, Ev("not_ready", s.shm_fd, 0, 0, <<>>, <<>>), unlock>>,
                      0, "run")

\* mapFrameBufferLocked of shmbuffer.cpp: how far it gets is map
\*   "nofb"   the framebuffer device cannot be opened or queried: -errno
\*   "nomem"  malloc fails: return 1, the shm fields keep their values
\*   "nofile" fopen fails and fwrite is handed a null FILE *
\*   "noshm"  open of /dev/shm/droid_screen fails: shm_fd = -1
\*   "nommap" mmap fails: shm_ptr = MAP_FAILED
\*   "ok"     the file is open and mapped
shm_mapFrameBufferLocked(s, map) ==
    IF map = "nofb" THEN ShmResult(s, <<>>, -1, "run")
    ELSE IF map = "nomem" THEN ShmResult(s, <<>>, 1, "run")
    ELSE IF map = "nofile" THEN ShmResult(s, <<>>, 0, "killed")
    ELSE IF map = "noshm" THEN ShmResult([s EXCEPT !.shm_fd = -1], <<>>, 0, "run")
    ELSE IF map = "nommap"
    THEN ShmResult([s EXCEPT !.shm_fd = FirstFd, !.shm_ptr = "MAP_FAILED"], <<>>, 0, "run")
    ELSE ShmResult([s EXCEPT !.shm_fd = FirstFd, !.shm_ptr = "mapped"], <<>>, 0, "run")

\* shmbuffer_device_open(module, name, device): found is what hw_get_module
\* does, "ok", "enoent" (the pointer keeps its value) or "noload" (the
\* pointer is set to null); status stays -EINVAL unless the module was found
shmbuffer_device_open_run(s, name, found, map) ==
    IF name = "gpu0" THEN ShmResult(s, <<>>, -22, "run")
    ELSE IF found = "enoent" THEN ShmResult(s, <<>>, -22, "run")
    ELSE IF found = "noload" THEN ShmResult([s EXCEPT !.gralloc = FALSE], <<>>, -22, "run")
    ELSE LET r == shm_mapFrameBufferLocked([s EXCEPT !.gralloc = TRUE], map)
         IN IF r.status = "run" /\ r.ret >= 0
            THEN [r EXCEPT !.shm.devs = @ + 1]
            ELSE r

----------------------------------------------------------------------------
(* What the system and the peer may do during a call *)

Peer(deliver, then) == [deliver |-> deliver, then |-> then]

Quiet == Peer(<<>>, "silent")

\* replies of the sensor peer
REPLY_1 == <<97, 99, 99, 101, 108, 101, 114, 97, 116, 105, 111, 110, 58, 49, 46, 48, 58, 50, 46, 48, 58, 51, 46, 48, 58, 49, 48, 48, 48>>
REPLY_2 == <<97, 99, 99, 101, 108, 101, 114, 97, 116, 105, 111, 110, 58, 48, 46, 53, 58, 45, 50, 58, 52, 58, 55, 55>>
REPLY_FOO == <<102, 111, 111>>

\* a framed message: the length byte, then the payload
Frame(payload) == <<ToByte(Len(payload))>> \o payload

\* a reply longer than the receive buffer
REPLY_LONG == [k \in 1..BUFF_SIZE |-> 65]

\* what happens during one slot of a poll: the outcomes of the two sends, what
\* the peer does during the two receives, what the kernel does with a length
\* beyond the address space, and what an overwritten stack frame leads to
SlotOf(s1, s2, r1, r2, huge, smash) ==
    [s1 |-> s1, s2 |-> s2, r1 |-> r1, r2 |-> r2, huge |-> huge, smash |-> smash]

Slot(s1, s2, r1, r2) == SlotOf(s1, s2, r1, r2, "copy", "crash")

\* the slots of a poll that end with a parsed reply
GoodSlots ==
    { Slot("ok", "ok", Peer(Frame(REPLY_1), "silent"), Quiet),
      Slot("ok", "ok", Peer(<<ToByte(Len(REPLY_2))>>, "silent"), Peer(REPLY_2, "silent")) }

\* the slots that end the poll
BadSlots ==
    { Slot("err", "ok", Quiet, Quiet),
      Slot("ok", "epipe", Quiet, Quiet),
      Slot("ok", "ok", Quiet, Quiet),
      Slot("ok", "ok", Peer(<<>>, "eof"), Peer(<<>>, "eof")),
      Slot("ok", "ok", Peer(<<>>, "reset"), Quiet),
      Slot("ok", "ok", Peer(<<ToByte(Len(REPLY_1))>>, "silent"), Quiet),
      Slot("ok", "ok", Peer(<<ToByte(Len(REPLY_1))>>, "silent"), Peer(<<>>, "eof")),
      Slot("ok", "ok", Peer(<<ToByte(Len(REPLY_1))>>, "silent"), Peer(<<>>, "reset")),
      Slot("ok", "ok", Peer(<<ToByte(Len(REPLY_1))>>, "silent"), Peer(Take(REPLY_1, 20), "silent")),
      Slot("ok", "ok", Peer(Frame(REPLY_FOO), "silent"), Quiet),
      Slot("ok", "ok", Peer(<<3>> \o REPLY_2, "silent"), Quiet),
      Slot("ok", "ok", Peer(<<200>> \o REPLY_1, "silent"), Quiet),
      SlotOf("ok", "ok", Peer(<<200>> \o REPLY_1, "silent"), Quiet, "efault", "crash"),
      SlotOf("ok", "ok", Peer(<<255>> \o REPLY_LONG, "silent"), Quiet, "copy", "crash"),
      SlotOf("ok", "ok", Peer(<<255>> \o REPLY_LONG, "silent"), Quiet, "copy", "ret_neg"),
      SlotOf("ok", "ok", Peer(<<255>> \o REPLY_LONG, "silent"), Quiet, "copy", "ret_big"),
      Slot("ok", "ok", Peer(<<0>>, "silent"), Peer(<<>>, "eof")) }

RECURSIVE GoodRuns(_)
\* the sequences of k good slots
GoodRuns(k) ==
    IF k = 0 THEN {<<>>}
    ELSE {Append(g, x) : g \in GoodRuns(k - 1), x \in GoodSlots}

\* the scripts of a poll of count slots: good slots, then at most one that ends it
PollScripts(count) ==
    GoodRuns(count)
    \cup UNION { {Append(g, x) : g \in GoodRuns(k), x \in BadSlots} : k \in 0..(count - 1) }

\* the outcomes of the two sends of a command
CommandEnvs == { [s1 |-> "ok", s2 |-> "ok"], [s1 |-> "err", s2 |-> "ok"],
                 [s1 |-> "ok", s2 |-> "epipe"] }

\* the status replies of the relay peer, and what message_buffer may hold before
STATUS_OK == <<79, 75, 0>>
STATUS_FA == <<70, 65, 0>>
STATUS_XY == <<88, 89, 0>>
STATUS_OKX == <<79, 75, 88>>

StackBytes == { STATUS_OK, STATUS_XY }

PostEnvs ==
    { [send |-> h, r |-> Quiet, stack |-> STATUS_XY] : h \in {"err", "epipe"} }
    \cup
    { [send |-> "ok", r |-> pr, stack |-> sb] :
        pr \in { Peer(STATUS_OK, "silent"), Peer(STATUS_FA, "silent"),
                 Peer(STATUS_XY, "silent"), Peer(STATUS_OKX, "silent"),
                 Quiet, Peer(<<>>, "reset"), Peer(<<>>, "eof"),
                 Peer(STR_OK, "eof"), Peer(<<70>>, "eof") },
        sb \in StackBytes }

RendererEnvs ==
    { [socket |-> FALSE, connect |-> FALSE], [socket |-> TRUE, connect |-> FALSE],
      [socket |-> TRUE, connect |-> TRUE] }

\* the arguments the callers pass
Handles == {ID_ACCELERATION, ID_MAGNETIC_FIELD, ID_PROXIMITY, ID_BASE + MAX_NUM_SENSORS}

Enables == {0, 1, 2}

Delays == {0, 2000, 5000000}

Buffers ==
    { [version |-> 12, numFds |-> 1, numInts |-> 0, data |-> <<10>>],
      [version |-> 12, numFds |-> 2, numInts |-> 1, data |-> <<10, 11, 42>>],
      [version |-> 12, numFds |-> 0, numInts |-> 2, data |-> <<42, 43>>] }

Infos == { [width |-> 4, height |-> 2, stride |-> 4, pixel_format |-> 1] }

\* the builds: 32-bit ARM (plain char unsigned, 4-byte alignment of control
\* messages) and x86-64 (plain char signed, 8-byte alignment)
ABIs == { [char_signed |-> FALSE, lp64 |-> FALSE], [char_signed |-> TRUE, lp64 |-> TRUE] }

----------------------------------------------------------------------------
(* The actions: one per handler *)

NoCall == [op |-> "none", args |-> <<>>, fdBefore |-> -1, status |-> "returned",
           ret |-> 0, log |-> <<>>, data |-> <<>>]

CallOf(op, args, fdBefore, r) ==
    [op |-> op, args |-> args, fdBefore |-> fdBefore,
     status |-> IF r.st.status = "run" THEN "returned" ELSE r.st.status,
     ret |-> IF r.st.status = "run" THEN r.ret ELSE 0,
     log |-> r.st.log, data |-> r.data]

\* the effect of a handler's system calls on the process
Commit(client, r) ==
    /\ socks' = r.st.socks
    /\ sigpipe' = r.st.sigpipe
    /\ proc' = IF r.st.status = "killed" THEN "killed" ELSE proc
    /\ blocked' = IF r.st.status = "blocked" THEN blocked \cup {client} ELSE blocked
    /\ \A fd \in DOMAIN r.st.socks : Len(r.st.socks[fd].inbuf) <= MaxUnread

SensorsReady == proc = "running" /\ "sensors" \notin blocked

RelayReady == proc = "running" /\ "relay" \notin blocked

DefaultConn == [socket |-> FALSE, connect |-> FALSE, setsockopt |-> FALSE]

\* open_sensors(module, name, device)
open_sensors(name) ==
    /\ SensorsReady /\ ~ctl.open
    /\ IF name = "poll"
       THEN /\ ctl' = [open |-> TRUE, fd |-> -1, delay |-> 0]
            /\ call' = [NoCall EXCEPT !.op = "open_sensors", !.args = <<name>>]
       ELSE /\ ctl' = ctl
            /\ call' = [NoCall EXCEPT !.op = "open_sensors", !.args = <<name>>, !.ret = -22]
    /\ UNCHANGED <<socks, sigpipe, proc, blocked, m, fb_devs, abi, shm>>

\* poll__close(dev)
poll__close ==
    /\ SensorsReady /\ ctl.open
    /\ LET st == IF ctl.fd >= 0 THEN sys_close(StartSt, ctl.fd) ELSE StartSt
           r == Result(st, -1, 0, <<>>)
       IN /\ Commit("sensors", r)
          /\ call' = CallOf("poll__close", <<>>, ctl.fd, r)
    /\ ctl' = [open |-> FALSE, fd |-> -1, delay |-> 0]
    /\ UNCHANGED <<m, fb_devs, abi, shm>>

\* the connection attempts a call can see: none when the slot holds a descriptor
ConnEnvsFor(fd) == IF fd >= 0 THEN {DefaultConn} ELSE ConnEnvs

\* poll__poll(dev, data, count)
poll__poll(count) ==
    /\ SensorsReady /\ ctl.open
    /\ \E r \in {poll__poll_run(count, ce, envs) :
                    ce \in ConnEnvsFor(ctl.fd), envs \in PollScripts(count)} :
          /\ ~r.starved
          /\ Commit("sensors", r)
          /\ ctl' = [ctl EXCEPT !.fd = r.fd]
          /\ call' = CallOf("poll__poll", <<count>>, ctl.fd, r)
    /\ UNCHANGED <<m, fb_devs, abi, shm>>

\* poll__activate(dev, handle, enabled)
poll__activate(handle, enabled) ==
    /\ SensorsReady /\ ctl.open
    /\ \E r \in {poll__activate_run(handle, enabled, ce, e) :
                    ce \in ConnEnvsFor(ctl.fd), e \in CommandEnvs} :
          /\ Commit("sensors", r)
          /\ ctl' = [ctl EXCEPT !.fd = r.fd]
          /\ call' = CallOf("poll__activate", <<handle, enabled>>, ctl.fd, r)
    /\ UNCHANGED <<m, fb_devs, abi, shm>>

\* poll__setDelay(dev, handle, ns)
poll__setDelay(handle, ns) ==
    /\ SensorsReady /\ ctl.open
    /\ \E r \in {poll__setDelay_run(handle, ns, ce, e) :
                    ce \in ConnEnvsFor(ctl.fd), e \in CommandEnvs} :
          /\ Commit("sensors", r)
          /\ ctl' = [ctl EXCEPT !.fd = r.fd, !.delay = stored_delay(ctl.delay, handle, ns)]
          /\ call' = CallOf("poll__setDelay", <<handle, ns>>, ctl.fd, r)
    /\ UNCHANGED <<m, fb_devs, abi, shm>>

\* sharebuffer_device_open(module, name, device): mapped tells whether
\* mapFrameBuffer got through the framebuffer driver
sharebuffer_device_open(name, mapped) ==
    /\ RelayReady /\ fb_devs < MaxDevs
    /\ IF name = "gpu0"
       THEN /\ UNCHANGED <<m, fb_devs>>
            /\ call' = [NoCall EXCEPT !.op = "sharebuffer_device_open",
                                      !.args = <<name>>, !.ret = -22]
       ELSE IF mapped
       THEN /\ m' = [m EXCEPT !.fd_renderer = -1]
            /\ fb_devs' = fb_devs + 1
            /\ call' = [NoCall EXCEPT !.op = "sharebuffer_device_open",
                                      !.args = <<name>>, !.fdBefore = m.fd_renderer]
       ELSE /\ UNCHANGED <<m, fb_devs>>
            /\ call' = [NoCall EXCEPT !.op = "sharebuffer_device_open",
                                      !.args = <<name>>, !.ret = -1]
    /\ UNCHANGED <<socks, sigpipe, proc, blocked, ctl, abi, shm>>

\* fb_close(dev)
fb_close ==
    /\ RelayReady /\ fb_devs > 0
    /\ fb_devs' = fb_devs - 1
    /\ call' = [NoCall EXCEPT !.op = "fb_close", !.fdBefore = m.fd_renderer]
    /\ UNCHANGED <<socks, sigpipe, proc, blocked, ctl, m, abi, shm>>

RendererEnvsFor(fd) ==
    IF fd >= 0 THEN {[socket |-> FALSE, connect |-> FALSE]} ELSE RendererEnvs

\* fb_post(dev, buffer, width, height, stride, pixel_format)
fb_post(buffer, info) ==
    /\ RelayReady /\ fb_devs > 0
    /\ \E r \in {fb_post_run(buffer, info, ce, e) :
                    ce \in RendererEnvsFor(m.fd_renderer), e \in PostEnvs} :
          /\ Commit("relay", r)
          /\ m' = [m EXCEPT !.fd_renderer = r.fd]
          /\ call' = CallOf("fb_post", <<buffer, info>>, m.fd_renderer, r)
    /\ UNCHANGED <<ctl, fb_devs, abi, shm>>

\* a call of the shmbuffer module runs when the process lives
ShmReady == proc = "running"

ShmCall(op, args, r) ==
    [op |-> op, args |-> args, fdBefore |-> shm.shm_fd,
     status |-> IF r.status = "run" THEN "returned" ELSE r.status,
     ret |-> IF r.status = "run" THEN r.ret ELSE 0,
     log |-> r.log, data |-> <<>>]

ShmCommit(op, args, r) ==
    /\ shm' = r.shm
    /\ proc' = IF r.status = "killed" THEN "killed" ELSE proc
    /\ call' = ShmCall(op, args, r)
    /\ UNCHANGED <<socks, sigpipe, blocked, ctl, m, fb_devs, abi>>

\* shmbuffer_device_open(module, name, device)
shmbuffer_device_open(name, found, map) ==
    /\ ShmReady /\ shm.devs < MaxDevs
    /\ ShmCommit("shmbuffer_device_open", <<name>>,
                 shmbuffer_device_open_run(shm, name, found, map))

\* fb_close(dev) of shmbuffer.cpp
shm_fb_close ==
    /\ ShmReady /\ shm.devs > 0
    /\ ShmCommit("shm_fb_close", <<>>,
                 ShmResult([shm EXCEPT !.devs = @ - 1], <<>>, 0, "run"))

\* fb_post(dev, buffer) of shmbuffer.cpp
shm_fb_post(buffer, lock_ok, ub) ==
    /\ ShmReady /\ shm.devs > 0
    /\ ShmCommit("shm_fb_post", <<buffer>>, shm_fb_post_run(shm, buffer, lock_ok, ub))

----------------------------------------------------------------------------
(* The specification *)

Init ==
    /\ socks = <<>>
    /\ sigpipe = "SIG_DFL"
    /\ proc = "running"
    /\ blocked = {}
    /\ ctl = [open |-> FALSE, fd |-> -1, delay |-> 0]
    /\ m = [fd_renderer |-> 0]
    /\ fb_devs = 0
    /\ abi \in ABIs
    /\ shm = [gralloc |-> FALSE, shm_fd |-> 0, shm_ptr |-> "NULL", devs |-> 0,
              locked |-> {}, region |-> "none"]
    /\ call = NoCall

OpenSensors == \E name \in {"poll", "other"} : open_sensors(name)

PollClose == poll__close

Poll == \E count \in 0..MaxCount : poll__poll(count)

Activate == \E handle \in Handles : \E enabled \in Enables : poll__activate(handle, enabled)

SetDelay == \E handle \in Handles : \E ns \in Delays : poll__setDelay(handle, ns)

DeviceOpen == \E name \in {"fb0", "gpu0"} : \E mapped \in BOOLEAN :
                  sharebuffer_device_open(name, mapped)

FbClose == fb_close

Post == \E buffer \in Buffers : \E info \in Infos : fb_post(buffer, info)

ShmDeviceOpen ==
    \E name \in {"fb0", "gpu0"}, found \in {"ok", "enoent", "noload"},
       map \in {"nofb", "nomem", "nofile", "noshm", "nommap", "ok"} :
        shmbuffer_device_open(name, found, map)

ShmFbClose == shm_fb_close

ShmPost == \E buffer \in Buffers, lock_ok \in BOOLEAN, ub \in {"crash", "copy"} :
               shm_fb_post(buffer, lock_ok, ub)

Next ==
    \/ ShmDeviceOpen
    \/ ShmFbClose
    \/ ShmPost
    \/ OpenSensors
    \/ PollClose
    \/ Poll
    \/ Activate
    \/ SetDelay
    \/ DeviceOpen
    \/ FbClose
    \/ Post

Spec == Init /\ [][Next]_vars

\* the sensor client alone, and the buffer relay alone, in a process of any build
NextSensors == OpenSensors \/ PollClose \/ Poll \/ Activate \/ SetDelay

NextRelay == DeviceOpen \/ FbClose \/ Post

SpecSensors == Init /\ [][NextSensors]_vars

SpecRelay == Init /\ [][NextRelay]_vars

\* the command texts the framing is applied to: the payload is the text and
\* its terminating 0
Texts == { [k \in 1..n |-> 65] : n \in 0..(MaxPayload - 1) }

\* the bytes that follow the frame in the stream
Tails == { <<>>, <<7>> }

\* a text framed by the sends of the client and read back by the receives of
\* poll__poll, once per behaviour; buff[len] = 0 ends the string read
Codec ==
    \E text \in Texts, tail \in Tails :
        LET sent == frame_command(text)
            rcvd == read_frame(sent[1].data \o sent[2].data \o tail)
        IN /\ call = NoCall
           /\ call' = [op |-> "codec", args |-> <<text, tail>>, fdBefore |-> -1,
                       status |-> "returned", ret |-> rcvd[2].ret,
                       log |-> sent \o rcvd,
                       data |-> CStr(Append(rcvd[2].data, 0))]
           /\ UNCHANGED <<socks, sigpipe, proc, blocked, ctl, m, fb_devs, abi, shm>>

NextCodec == Codec

\* the shared-memory sink alone
\* both clients in one process, on fewer inputs
BothBound ==
    /\ \A fd \in DOMAIN socks : Len(socks[fd].inbuf) <= MaxBothUnread
    /\ fb_devs <= MaxBothDevs

NextBoth ==
    \/ OpenSensors /\ BothBound'
    \/ PollClose /\ BothBound'
    \/ (\E count \in 0..MaxBothCount : poll__poll(count)) /\ BothBound'
    \/ (\E handle \in {ID_ACCELERATION, ID_PROXIMITY} :
            poll__activate(handle, 1)) /\ BothBound'
    \/ (\E handle \in {ID_ACCELERATION, ID_PROXIMITY} :
            poll__setDelay(handle, 0)) /\ BothBound'
    \/ DeviceOpen /\ BothBound'
    \/ FbClose /\ BothBound'
    \/ (\E buffer \in {b \in Buffers : b.numFds = 1} : \E info \in Infos :
            fb_post(buffer, info)) /\ BothBound'

SpecBoth == Init /\ [][NextBoth]_vars

NextShm == ShmDeviceOpen \/ ShmFbClose \/ ShmPost

SpecShm == Init /\ [][NextShm]_vars

SpecCodec == Init /\ [][NextCodec]_vars

----------------------------------------------------------------------------
(* Reading the record of the most recent call *)

SensorCalls == {"poll__poll", "poll__activate", "poll__setDelay"}

Returned(op) == call.op = op /\ call.status = "returned"

\* the positions of a log whose system call is one of scs
At(log, scs) == {i \in 1..Len(log) : log[i].sc \in scs}

\* the sends and receives of a log that returned an error
IOFailures(log) == {i \in At(log, {"send", "recv", "sendmsg"}) : log[i].ret < 0}

\* the call tried to connect and did not get a connection
ConnectFailed(c) ==
    /\ c.fdBefore < 0
    /\ \/ \E i \in At(c.log, {"socket"}) : c.log[i].ret < 0
       \/ \E i \in At(c.log, {"connect"}) : c.log[i].ret < 0

\* the receives of a poll that ask for a payload: those that follow a receive
PayloadRecvs(log) == {i \in At(log, {"recv"}) : i > 1 /\ log[i - 1].sc = "recv"}

\* the payload receives of a log, in order
RECURSIVE PayloadSeq(_, _)
PayloadSeq(log, i) ==
    IF i > Len(log) THEN <<>>
    ELSE IF i \in PayloadRecvs(log) THEN <<log[i]>> \o PayloadSeq(log, i + 1)
    ELSE PayloadSeq(log, i + 1)

\* the event record a matching reply text stands for
EventOf(text) ==
    LET p == sscanf_acceleration(CStr(text))
    IN [sensor |-> ID_ACCELERATION, x |-> p.params[1], y |-> p.params[2],
        z |-> p.params[3], timestamp |-> p.timestamp]

Matches(text) == sscanf_acceleration(CStr(text)).n = 4

----------------------------------------------------------------------------
(* C1: in the sensor client a send or receive that returns an error is     *)
(* followed by the close of the channel descriptor and nothing else: the   *)
(* slot is -1 when the call returns, the call makes no connect attempt     *)
(* after the failure, and the sensor call after it starts with one.        *)

C1_Invalidates ==
    (call.op \in SensorCalls /\ call.status = "returned" /\ IOFailures(call.log) # {}) =>
        \E i \in IOFailures(call.log) :
            /\ IOFailures(call.log) = {i}
            /\ Len(call.log) = i + 1
            /\ call.log[i + 1] = Ev("close", call.log[i].fd, 0, 0, <<>>, <<>>)
            /\ call.log[i].fd \notin DOMAIN socks
            /\ ctl.fd = -1

C1_NextConnects ==
    (call.op \in SensorCalls /\ IOFailures(call.log) # {} /\ call'.op \in SensorCalls) =>
        /\ call'.fdBefore = -1
        /\ Len(call'.log) >= 1
        /\ call'.log[1].sc = "socket"

\* C1: both parts, in every state and at every step
C1_ChannelFailure == [](C1_Invalidates) /\ [][C1_NextConnects]_vars

C1_Witness ==
    /\ Returned("poll__poll") /\ call.fdBefore >= 0 /\ ctl.fd = -1
    /\ \E i \in IOFailures(call.log) : call.log[i].sc = "recv"

(* C2: poll(count) returns r with 0 <= r <= count; r is the number of      *)
(* event records written, the k-th record being the k-th reply received;   *)
(* a reply that does not match the pattern is the last thing the call      *)
(* reads, and the call returns the number of records made before it        *)
(* without closing the channel.                                            *)

C2_PollResult ==
    Returned("poll__poll") =>
        LET replies == PayloadSeq(call.log, 1)
        IN /\ call.ret >= 0 /\ call.ret <= call.args[1]
           /\ call.ret = Len(call.data)
           /\ Len(replies) >= call.ret
           /\ \A k \in 1..call.ret :
                 /\ Matches(Take(replies[k].data, replies[k].ret))
                 /\ call.data[k] = EventOf(Take(replies[k].data, replies[k].ret))
           /\ \A i \in PayloadRecvs(call.log) :
                 (call.log[i].ret >= 0 /\ ~Matches(Take(call.log[i].data, call.log[i].ret))) =>
                     /\ i = Len(call.log)
                     /\ call.ret = Cardinality({j \in PayloadRecvs(call.log) : j < i})
                     /\ ctl.fd = call.log[i].fd
                     /\ ctl.fd \in DOMAIN socks

(* C3: a poll that starts disconnected and whose connection attempt fails  *)
(* returns 0 with no record, makes that one attempt only, sends and        *)
(* receives nothing, and leaves the slot at -1 and the process running.    *)

C3_PeerAbsent ==
    (call.op = "poll__poll" /\ ConnectFailed(call)) =>
        /\ call.status = "returned"
        /\ call.ret = 0
        /\ call.data = <<>>
        /\ Cardinality(At(call.log, {"socket"})) = 1
        /\ At(call.log, {"send", "recv", "recv_blocks", "sendmsg"}) = {}
        /\ ctl.fd = -1
        /\ proc = "running"

C3_Witness ==
    /\ call.op = "poll__poll" /\ call.args[1] >= 1 /\ ConnectFailed(call)
    /\ \E i \in At(call.log, {"connect"}) : call.log[i].ret < 0

----------------------------------------------------------------------------
(* The status replies of present() *)

StatusReplies == {STATUS_OK, STATUS_FA, STATUS_XY, STATUS_OKX}

\* the kind of result the three bytes of a status reply stand for
StatusKind(b) ==
    IF b = STATUS_OK THEN "Success"
    ELSE IF b = STATUS_FA THEN "PeerRejected"
    ELSE "MalformedReply"

\* call c is a present() that returned after reading the three status bytes b
GotReply(c, b) ==
    /\ c.op = "fb_post" /\ c.status = "returned"
    /\ \E i \in At(c.log, {"recv"}) : c.log[i].ret = STATUS_SIZE /\ c.log[i].data = b

\* call c is a present() whose send failed: sendmsg had an error to return,
\* EPIPE of a peer that closed its end among them
SendFailed(c) ==
    /\ c.op = "fb_post"
    /\ \/ \E i \in At(c.log, {"sendmsg"}) : c.log[i].ret < 0
       \/ At(c.log, {"sendmsg_sigpipe"}) # {}

(* C4: present() gives "OK\0" the result success, and status replies of    *)
(* different kinds (success, PeerRejected for "FA\0", MalformedReply for   *)
(* any other three bytes) different results: of two successive calls that  *)
(* read replies of different kinds, the results differ.                    *)

C4_Step ==
    \A b1 \in StatusReplies, b2 \in StatusReplies :
        (GotReply(call, b1) /\ GotReply(call', b2)) =>
            /\ b2 = STATUS_OK => call'.ret = 0
            /\ StatusKind(b1) # StatusKind(b2) => call.ret # call'.ret

\* C4: at every step
C4_ThreeOutcomes == [][C4_Step]_vars

(* C5: a logical error leaves the channel alone: after present() read the  *)
(* status "FA\0" the relay descriptor is still open and in the slot, and   *)
(* an activate or setDelay for an unsupported kind closes nothing.         *)

C5_LogicalErrorKeepsChannel ==
    /\ GotReply(call, STATUS_FA) =>
          /\ At(call.log, {"close"}) = {}
          /\ m.fd_renderer >= 0
          /\ m.fd_renderer \in DOMAIN socks
    /\ (call.op \in {"poll__activate", "poll__setDelay"} /\ call.args[1] # ID_ACCELERATION
            /\ call.fdBefore >= 0) =>
          /\ ctl.fd = call.fdBefore
          /\ ctl.fd \in DOMAIN socks

(* C6: every present() call returns: none waits forever for the status     *)
(* reply of a peer that took the message and stays silent.                 *)

C6_PresentReturns == call.op = "fb_post" => call.status # "blocked"

(* C7: when the send of present() fails the call closes the relay          *)
(* descriptor and does nothing more: it reads no reply, returns -1 with    *)
(* the slot at -1, and the present() after it starts with a connect        *)
(* attempt.                                                                *)

C7_Closes ==
    SendFailed(call) =>
        /\ call.status = "returned"
        /\ call.ret = -1
        /\ m.fd_renderer = -1
        /\ At(call.log, {"recv", "recv_blocks"}) = {}
        /\ \E i \in At(call.log, {"sendmsg"}) :
               /\ Len(call.log) = i + 1
               /\ call.log[i + 1] = Ev("close", call.log[i].fd, 0, 0, <<>>, <<>>)
               /\ call.log[i].fd \notin DOMAIN socks

C7_NextConnects ==
    (SendFailed(call) /\ call'.op = "fb_post") =>
        /\ call'.fdBefore = -1
        /\ Len(call'.log) >= 1
        /\ call'.log[1].sc = "socket"

\* C7: both parts, in every state and at every step
C7_SendFailure == [](C7_Closes) /\ [][C7_NextConnects]_vars

(* C8: a present() that sent its message and read "OK\0" returns 0 and     *)
(* keeps its descriptor open in the slot, and the present() after it sends *)
(* on that descriptor without a connect attempt.                           *)

C8_StaysConnected ==
    GotReply(call, STATUS_OK) =>
        /\ call.ret = 0
        /\ At(call.log, {"close"}) = {}
        /\ m.fd_renderer >= 0
        /\ m.fd_renderer \in DOMAIN socks
        /\ \A i \in At(call.log, {"sendmsg", "recv"}) : call.log[i].fd = m.fd_renderer

C8_Reuses ==
    (GotReply(call, STATUS_OK) /\ call'.op = "fb_post") =>
        /\ call'.fdBefore = m.fd_renderer
        /\ At(call'.log, {"socket", "connect"}) = {}
        /\ Len(call'.log) >= 1
        /\ call'.log[1].sc \in {"sendmsg", "sendmsg_sigpipe"}
        /\ call'.log[1].fd = m.fd_renderer

\* C8: both parts, in every state and at every step
C8_OkKeepsChannel == [](C8_StaysConnected) /\ [][C8_Reuses]_vars

C8_Witness ==
    /\ GotReply(call, STATUS_OK) /\ call.fdBefore >= 0
    /\ call.args[1].numFds = 1 /\ call.args[1].numInts = 0

(* C9: a present() that starts disconnected and whose connection attempt   *)
(* fails reports a failure (a result other than success), sends and        *)
(* receives nothing, and leaves the slot at -1.                            *)

C9_PeerUnavailable ==
    (call.op = "fb_post" /\ ConnectFailed(call)) =>
        /\ call.status = "returned"
        /\ call.ret # 0
        /\ At(call.log, {"sendmsg", "sendmsg_sigpipe", "recv", "recv_blocks"}) = {}
        /\ m.fd_renderer = -1

(* C10: activate and setDelay for a kind other than acceleration return    *)
(* the unsupported-kind error and make no system call on a socket: no      *)
(* connection attempt and no send.                                         *)

C10_NoTraffic ==
    (call.op \in {"poll__activate", "poll__setDelay"} /\ call.args[1] # ID_ACCELERATION) =>
        /\ call.status = "returned"
        /\ call.ret = -1
        /\ At(call.log, {"socket", "connect", "send"}) = {}

----------------------------------------------------------------------------
(* The commands of the sensor client *)

\* the text of the set command for the acceleration kind
SetCommand(enabled) ==
    STR_set \o STR_acceleration \o <<CH_colon, CH_0 + (IF enabled # 0 THEN 1 ELSE 0)>>

\* the slot a sensor call works with once its connection attempt, if any, is over
SlotAfterConnect(c) ==
    IF c.fdBefore >= 0 THEN c.fdBefore
    ELSE IF ConnectFailed(c) THEN -1
    ELSE c.log[1].ret

(* C11: activate for the acceleration kind returns 0 and sends nothing     *)
(* when the channel is disconnected and the connection attempt fails; with *)
(* a channel it sends the length byte and the set command, and it never    *)
(* calls recv.                                                             *)

C11_Activate ==
    (call.op = "poll__activate" /\ call.args[1] = ID_ACCELERATION) =>
        /\ call.status = "returned"
        /\ At(call.log, {"recv", "recv_blocks"}) = {}
        /\ ConnectFailed(call) =>
              /\ call.ret = 0
              /\ At(call.log, {"send"}) = {}
              /\ ctl.fd = -1
        /\ SlotAfterConnect(call) >= 0 =>
              \E i \in At(call.log, {"send"}) :
                  /\ \A j \in At(call.log, {"send"}) : j >= i
                  /\ call.log[i].fd = SlotAfterConnect(call)
                  /\ call.log[i].data = <<Len(SetCommand(call.args[2])) + 1>>
                  /\ call.log[i].ret >= 0 =>
                        /\ call.log[i + 1].sc = "send"
                        /\ call.log[i + 1].fd = SlotAfterConnect(call)
                        /\ call.log[i + 1].data = Append(SetCommand(call.args[2]), 0)
                        /\ call.log[i + 1].ret >= 0 => (call.ret = 0 /\ Len(call.log) = i + 1)

C11_Witness ==
    /\ call.op = "poll__activate" /\ call.args[1] = ID_ACCELERATION
    /\ ConnectFailed(call) /\ call.ret = 0
    /\ \E i \in At(call.log, {"connect"}) : call.log[i].ret < 0

(* C12: when setDelay(handle, ns) has returned, ctl->delay is ns, whatever *)
(* the handle, the channel and the result; poll and activate leave         *)
(* ctl->delay as it is; and every sample of a poll starts with a sleep of  *)
(* ctl->delay / 1000 microseconds.                                         *)

C12_Stored ==
    (call.op = "poll__setDelay" /\ call.status = "returned") => ctl.delay = call.args[2]

C12_Kept ==
    call'.op \in {"poll__poll", "poll__activate"} => ctl'.delay = ctl.delay

\* the position of the first send of each sample of a poll
SampleStarts(log) == {i \in At(log, {"send"}) : i > 1 /\ log[i - 1].sc # "send"}

C12_Used ==
    call.op = "poll__poll" =>
        \A i \in SampleStarts(call.log) :
            call.log[i - 1] = Ev("usleep", -1, ctl.delay \div 1000, 0, <<>>, <<>>)

\* C12: the three parts, in every state and at every step
C12_DelayStored == [](C12_Stored /\ C12_Used) /\ [][C12_Kept]_vars

C12_Witness ==
    /\ call.op = "poll__setDelay" /\ call.status = "returned"
    /\ call.args[1] # ID_ACCELERATION /\ call.args[2] = 5000000
    /\ ctl.delay = 5000000

(* C13: in poll a recv that was asked for no more than buff holds and      *)
(* returns fewer bytes than it asked for (0 at the end of the stream, or a *)
(* payload shorter than its prefix) is a channel failure: the close of the *)
(* descriptor follows it and ends the call, the slot is -1, and no record  *)
(* is made of the bytes.                                                   *)

C13_ShortRead ==
    (call.op = "poll__poll" /\ call.status = "returned") =>
        \A i \in At(call.log, {"recv"}) :
            (/\ call.log[i].arg < BUFF_SIZE
             /\ call.log[i].ret >= 0
             /\ call.log[i].ret < call.log[i].arg) =>
                /\ Len(call.log) = i + 1
                /\ call.log[i + 1] = Ev("close", call.log[i].fd, 0, 0, <<>>, <<>>)
                /\ ctl.fd = -1
                /\ call.ret = Cardinality({j \in PayloadRecvs(call.log) : j < i})

(* C14: a present() whose recv of the status returned fewer than three     *)
(* bytes returns -1 and closes the relay descriptor, and a present() that  *)
(* called recv returns 0 only after reading 'O','K',0.                     *)

C14_ShortStatus ==
    (call.op = "fb_post" /\ call.status = "returned") =>
        \A i \in At(call.log, {"recv"}) :
            /\ (call.log[i].ret >= 0 /\ call.log[i].ret < STATUS_SIZE) =>
                  /\ call.ret = -1
                  /\ m.fd_renderer = -1
                  /\ call.log[i].fd \notin DOMAIN socks
            /\ call.ret = 0 => (call.log[i].ret = STATUS_SIZE /\ call.log[i].data = STATUS_OK)

(* C15: a write to a peer that has closed its end returns an error and     *)
(* the call closes the channel: no call of either client ends with the     *)
(* process terminated by SIGPIPE.                                          *)

C15_NoBrokenPipeSignal ==
    /\ At(call.log, {"sendmsg_sigpipe"}) = {}
    /\ \A i \in IOFailures(call.log) :
          call.log[i].sc \in {"send", "sendmsg"} =>
              (i < Len(call.log) /\ call.log[i + 1].sc = "close")

(* C16: every command of the sensor client goes out as two sends: one byte *)
(* equal to the length of the command text plus one, never 0, and then the *)
(* text with its terminating 0, that many bytes; the text is sent only     *)
(* after the send of the prefix succeeded, and follows it at once.         *)

CommandText(c) ==
    IF c.op = "poll__poll" THEN STR_get_accelerometer
    ELSE IF c.op = "poll__activate" THEN SetCommand(c.args[2])
    ELSE STR_setDelay \o STR_acceleration_colon \o FmtInt(c.args[2])

PrefixSends(log) == {i \in At(log, {"send"}) : i = 1 \/ log[i - 1].sc # "send"}

C16_Framing ==
    call.op \in SensorCalls =>
        \A i \in At(call.log, {"send"}) :
            IF i \in PrefixSends(call.log)
            THEN /\ call.log[i].arg = 1
                 /\ call.log[i].data = <<Len(CommandText(call)) + 1>>
                 /\ call.log[i].data[1] \in 1..255
                 /\ call.log[i].ret >= 0 =>
                       (i < Len(call.log) /\ call.log[i + 1].sc = "send")
            ELSE /\ i - 1 \in PrefixSends(call.log)
                 /\ call.log[i - 1].ret = 1
                 /\ call.log[i].fd = call.log[i - 1].fd
                 /\ call.log[i].arg = call.log[i - 1].data[1]
                 /\ call.log[i].data = CommandText(call) \o <<0>>

\* setDelay:acceleration:5000000 went out behind the prefix 30
C16_Witness ==
    /\ call.op = "poll__setDelay"
    /\ call.status = "returned"
    /\ call.ret = 0
    /\ \E i \in At(call.log, {"send"}) :
          /\ call.log[i].data = <<30>>
          /\ call.log[i].ret = 1
          /\ call.log[i + 1].ret = 30
          /\ call.log[i + 1].data =
                <<115, 101, 116, 68, 101, 108, 97, 121, 58,
                  97, 99, 99, 101, 108, 101, 114, 97, 116, 105, 111, 110, 58,
                  53, 48, 48, 48, 48, 48, 48, 0>>

(* C18: a poll(count) whose channel is or becomes connected, whose sends   *)
(* succeed and whose every get is answered by a whole reply of the form    *)
(* acceleration:x:y:z:timestamp returns count, with count records that     *)
(* hold the values of the replies in the order of their arrival, closes    *)
(* nothing and leaves the channel connected on the descriptor it used.     *)

\* the peer answered every get of the call with a whole matching reply
Answered(c) ==
    /\ c.op = "poll__poll"
    /\ c.status = "returned"
    /\ SlotAfterConnect(c) >= 0
    /\ IOFailures(c.log) = {}
    /\ \A i \in PayloadRecvs(c.log) :
          /\ c.log[i - 1].ret = 1
          /\ c.log[i].arg = c.log[i - 1].data[1]
          /\ c.log[i].ret = c.log[i].arg
          /\ c.log[i].ret < BUFF_SIZE
          /\ Matches(c.log[i].data)

\* the records of acceleration:1.0:2.0:3.0:1000 and acceleration:0.5:-2:4:77
RECORD_1 ==
    [sensor |-> ID_ACCELERATION, x |-> Ratio(1, 1), y |-> Ratio(2, 1),
     z |-> Ratio(3, 1), timestamp |-> 1000]

RECORD_2 ==
    [sensor |-> ID_ACCELERATION, x |-> Ratio(1, 2), y |-> Ratio(-2, 1),
     z |-> Ratio(4, 1), timestamp |-> 77]

C18_AllAnswered ==
    Answered(call) =>
        LET replies == PayloadSeq(call.log, 1)
        IN /\ call.ret = call.args[1]
           /\ Len(call.data) = call.args[1]
           /\ Len(replies) = call.args[1]
           /\ \A k \in 1..Len(replies) :
                 /\ replies[k].data = REPLY_1 => call.data[k] = RECORD_1
                 /\ replies[k].data = REPLY_2 => call.data[k] = RECORD_2
                 /\ replies[k].data \in {REPLY_1, REPLY_2}
           /\ At(call.log, {"close"}) = {}
           /\ ctl.fd = SlotAfterConnect(call)
           /\ ctl.fd \in DOMAIN socks

\* two gets answered by two different replies
C18_Witness ==
    /\ Answered(call)
    /\ call.args[1] = 2
    /\ call.data = <<RECORD_2, RECORD_1>>

(* The message of the relay client *)

\* the sendmsg calls of a log, those that ended the process included
Sendmsgs(log) == At(log, {"sendmsg", "sendmsg_sigpipe"})

\* the four descriptor fields and the header of the handle, as 32-bit words
MessageHead(c) ==
    <<c.args[2].width, c.args[2].height, c.args[2].stride, c.args[2].pixel_format,
      c.args[1].version, c.args[1].numFds, c.args[1].numInts>>

(* C19 as stated: the message of present() is the four descriptor fields,  *)
(* the header of the handle and then its numInts integers only, so its     *)
(* length does not depend on numFds.                                       *)

C19_NoInlineDescriptors ==
    call.op = "fb_post" =>
        \A i \in Sendmsgs(call.log) :
            /\ call.log[i].data =
                  MessageHead(call) \o Drop(call.args[1].data, call.args[1].numFds)
            /\ call.log[i].arg = 7 + call.args[1].numInts

(* C19, amended: the message of present() is one buffer of 32-bit words:   *)
(* width, height, stride, pixel format, then version, numFds, numInts,     *)
(* then all numFds + numInts data words of the handle, the descriptor      *)
(* numbers first; its length is 28 + 4 * (numFds + numInts) bytes.         *)

C19_WholeHandle ==
    call.op = "fb_post" =>
        /\ Cardinality(Sendmsgs(call.log)) <= 1
        /\ \A i \in Sendmsgs(call.log) :
              /\ call.log[i].data = MessageHead(call) \o call.args[1].data
              /\ Len(call.args[1].data) = call.args[1].numFds + call.args[1].numInts
              /\ call.log[i].arg * SIZEOF_INT =
                    28 + 4 * (call.args[1].numFds + call.args[1].numInts)

\* a handle of two descriptors and one integer went out whole
C19_Witness ==
    /\ call.op = "fb_post"
    /\ call.status = "returned"
    /\ \E i \in Sendmsgs(call.log) :
          /\ call.log[i].ret = 10
          /\ call.log[i].data = <<4, 2, 4, 1, 12, 2, 1, 10, 11, 42>>

(* C20: the control message of present()'s sendmsg carries exactly the     *)
(* numFds descriptors of the handle, in the order of the handle, and the   *)
(* call makes one sendmsg for the bytes and the descriptors together.      *)

C20_Descriptors ==
    call.op = "fb_post" =>
        /\ Cardinality(Sendmsgs(call.log)) <= 1
        /\ \A i \in Sendmsgs(call.log) :
              call.log[i].fds = Take(call.args[1].data, call.args[1].numFds)

(* C17: for every payload of 1 to 254 bytes, a command text and its        *)
(* terminating 0, the prefix byte the client sends is the length of the    *)
(* payload and the payload goes out whole; reading the frame back asks for *)
(* as many bytes as the prefix says and yields the payload and its text.   *)

C17_RoundTrip ==
    call.op = "codec" =>
        LET payload == Append(call.args[1], 0)
        IN /\ call.log[1].data = <<Len(payload)>>
           /\ call.log[2].data = payload
           /\ call.log[3].data = call.log[1].data
           /\ call.log[4].arg = Len(payload)
           /\ call.log[4].data = payload
           /\ call.data = call.args[1]

(* The descriptors a call closes *)

\* the descriptors of the handle passed to present()
HandleFds(c) == {c.args[1].data[k] : k \in 1..c.args[1].numFds}

\* the descriptor a relay call works on: the slot, or the socket it made
RelaySlot(c) ==
    IF c.fdBefore >= 0 THEN c.fdBefore
    ELSE IF At(c.log, {"socket"}) = {} THEN -1
    ELSE c.log[1].ret

(* C21: present() closes no descriptor of the handle it was given and      *)
(* sends the handle as it was passed: every close it makes, whatever the   *)
(* outcome, is of the channel socket it used or just created, and the      *)
(* descriptors and words that go out are those of the caller's handle.     *)

C21_Borrows ==
    call.op = "fb_post" =>
        /\ \A i \in At(call.log, {"close"}) :
              /\ call.log[i].fd = RelaySlot(call)
              /\ call.log[i].fd \notin HandleFds(call)
              /\ call.log[i].ret = 0
        /\ \A i \in Sendmsgs(call.log) :
              /\ SubSeq(call.log[i].data, 5, Len(call.log[i].data)) =
                    <<call.args[1].version, call.args[1].numFds, call.args[1].numInts>>
                    \o call.args[1].data
              /\ Take(call.log[i].fds, call.args[1].numFds) =
                    Take(call.args[1].data, call.args[1].numFds)

\* a present() of a handle with two descriptors that closed its channel after
\* the reply
C21_Witness ==
    /\ call.op = "fb_post"
    /\ call.status = "returned"
    /\ call.ret = -1
    /\ HandleFds(call) = {10, 11}
    /\ At(call.log, {"recv"}) # {}
    /\ call.log[Len(call.log)] = Ev("close", RelaySlot(call), 0, 0, <<>>, <<>>)

(* C23: every poll returns: a connected peer that stays silent makes the   *)
(* receive fail after the timeout, so no poll waits in recv without end;   *)
(* the poll closes the channel, sets the slot to -1 and returns the number *)
(* of records made so far.                                                 *)

C23_PollReturns ==
    call.op = "poll__poll" =>
        /\ call.status # "blocked"
        /\ At(call.log, {"recv_blocks"}) = {}

(* C24: on the sensor channel a get:accelerometer is sent only after the   *)
(* whole reply to the get before it was received or the channel was        *)
(* closed, within a poll and from one poll to the next on the same         *)
(* descriptor (polls that overran the receive buffer set aside).           *)

\* the sends of the command text in a log
CommandSends(log) == At(log, {"send"}) \ PrefixSends(log)

\* the get sent at i was answered: a prefix byte and as many payload bytes as
\* it announced were received after it
GetAnswered(log, i) ==
    \E k \in PayloadRecvs(log) :
        /\ k > i
        /\ log[k - 1].ret = 1
        /\ log[k].ret = log[k - 1].data[1]

C24_InCall ==
    call.op = "poll__poll" =>
        \A i \in CommandSends(call.log), j \in CommandSends(call.log) :
            i < j => \E k \in PayloadRecvs(call.log) :
                        /\ i < k /\ k < j
                        /\ call.log[k - 1].ret = 1
                        /\ call.log[k].ret = call.log[k - 1].data[1]

C24_AcrossCalls ==
    (/\ call.op = "poll__poll"
     /\ call'.op = "poll__poll"
     /\ call'.fdBefore >= 0
     /\ call'.fdBefore = ctl.fd
     /\ At(call.log, {"stack_smashed"}) = {}
     /\ CommandSends(call.log) # {}
     /\ CommandSends(call'.log) # {}) =>
        \A i \in CommandSends(call.log) : GetAnswered(call.log, i)

\* C24: both parts, for every call and every pair of successive calls
C24_OneOutstanding == [](C24_InCall) /\ [][C24_AcrossCalls]_vars

(* C26: through every sequence of device open, present() and device close  *)
(* the relay client holds at most one open socket, and each socket it      *)
(* opened is the one in m->fd_renderer or is closed: opening the device    *)
(* never drops a connected descriptor from the slot without closing it.    *)

C26_OneSocket ==
    /\ Cardinality(DOMAIN socks) <= 1
    /\ DOMAIN socks \subseteq {m.fd_renderer}

(* C28: in poll, whatever byte 0..255 the peer sends as the prefix, the    *)
(* payload recv asks for that many bytes, at most 255, and buff[len] = 0   *)
(* is written inside the 256 bytes of buff.                                *)

C28_PrefixLength ==
    call.op = "poll__poll" =>
        /\ At(call.log, {"stack_smashed"}) = {}
        /\ \A i \in PayloadRecvs(call.log) :
              /\ call.log[i - 1].ret = 1 =>
                    call.log[i].arg = call.log[i - 1].data[1]
              /\ call.log[i].arg <= 255
              /\ call.log[i].ret < BUFF_SIZE

(* The lock bracket of the shared-memory sink *)

(* C29: a post of the shared-memory sink that returns has locked the       *)
(* buffer at most once and unlocked it once after each lock, as its last   *)
(* step, whether the region was ready or not, and leaves no buffer locked; *)
(* a post that finds no gralloc module returns -1 without locking.         *)

C29_Bracket ==
    (call.op = "shm_fb_post" /\ call.status = "returned") =>
        /\ Cardinality(At(call.log, {"lock"})) <= 1
        /\ Cardinality(At(call.log, {"unlock"})) = Cardinality(At(call.log, {"lock"}))
        /\ \A i \in At(call.log, {"lock"}) :
              /\ i = 1
              /\ call.log[Len(call.log)].sc = "unlock"
        /\ call.ret = -1 <=> call.log = <<>>
        /\ shm.locked = {}

C29_MissingModule ==
    (call'.op = "shm_fb_post" /\ ~shm.gralloc) =>
        /\ call'.status = "returned"
        /\ call'.ret = -1
        /\ call'.log = <<>>
        /\ shm' = shm

\* C29: the bracket of every post that returns, and the early return of
\* every post made without a gralloc module
C29_LockBracket == [](C29_Bracket) /\ [][C29_MissingModule]_vars

\* a post that found the region not ready and still unlocked the buffer
C29_Witness ==
    /\ call.op = "shm_fb_post"
    /\ call.status = "returned"
    /\ call.ret = 0
    /\ Len(call.log) = 3
    /\ call.log[1].sc = "lock" /\ call.log[1].ret = 0
    /\ call.log[2].sc = "not_ready"
    /\ call.log[3].sc = "unlock"

(* Both clients *)

\* the calls that use a channel
ChannelCalls == SensorCalls \cup {"fb_post"}

\* the steps of a connection attempt and the transfers on a channel
Attempts(log) == At(log, {"socket", "connect"})

Transfers(log) == At(log, {"send", "recv", "sendmsg", "sendmsg_sigpipe", "recv_blocks"})

(* C22: a poll, activate, setDelay or present makes at most one connection *)
(* attempt, before anything it sends or receives and only when it starts   *)
(* with the slot at -1; a call that starts connected makes none; after a   *)
(* send or receive returned an error the call sends, receives and connects *)
(* no more.                                                                *)

C22_NoRetry ==
    call.op \in ChannelCalls =>
        /\ Cardinality(At(call.log, {"socket"})) <= 1
        /\ Cardinality(At(call.log, {"connect"})) <= 1
        /\ call.fdBefore >= 0 => Attempts(call.log) = {}
        /\ call.fdBefore < 0 => (call.log # <<>> /\ call.log[1].sc = "socket")
        /\ \A i \in Attempts(call.log), j \in Transfers(call.log) : i < j
        /\ \A i \in IOFailures(call.log), j \in Transfers(call.log) \cup Attempts(call.log) :
              j <= i

\* a poll that connected, lost the channel on a receive and stopped there
C22_Witness ==
    /\ call.op = "poll__poll"
    /\ call.fdBefore < 0
    /\ Cardinality(At(call.log, {"connect"})) = 1
    /\ \E i \in IOFailures(call.log) : call.log[i].sc = "recv"
    /\ call.log[Len(call.log)].sc = "close"
    /\ m.fd_renderer >= 3

(* C25: while the peer is absent, that is while no connect() succeeds, a   *)
(* poll, activate, setDelay or present that starts disconnected returns,   *)
(* transfers nothing, leaves both slots as they were, the one it uses at   *)
(* -1, and leaves the same descriptors open as before; so this holds after *)
(* every call of a sequence of any length.                                 *)

\* the call of this step found its slot at -1 and the peer absent
AbsentStep ==
    /\ call'.op \in ChannelCalls
    /\ call'.fdBefore < 0
    /\ \A i \in At(call'.log, {"connect"}) : call'.log[i].ret < 0

C25_Step ==
    AbsentStep =>
        /\ call'.status = "returned"
        /\ proc' = "running"
        /\ Transfers(call'.log) = {}
        /\ ctl'.fd = ctl.fd
        /\ m'.fd_renderer = m.fd_renderer
        /\ call'.op = "fb_post" => m'.fd_renderer = -1
        /\ call'.op \in SensorCalls => ctl'.fd = -1
        /\ DOMAIN socks' = DOMAIN socks
        /\ Cardinality(At(call'.log, {"close"})) =
              Cardinality({i \in At(call'.log, {"socket"}) : call'.log[i].ret >= 0})

C25_PeerAbsent == [][C25_Step]_vars

\* a present() and the sensor device, both without their peer, no socket open
C25_Witness ==
    /\ call.op = "fb_post"
    /\ call.fdBefore < 0
    /\ \E i \in At(call.log, {"connect"}) : call.log[i].ret < 0
    /\ ctl.open /\ ctl.fd = -1
    /\ m.fd_renderer = -1
    /\ DOMAIN socks = {}

(* The descriptors of both clients *)

\* the calls that may close a channel
ClosingCalls == ChannelCalls \cup {"poll__close"}

(* C27 as stated: every close is of the descriptor the slot holds: the one *)
(* it held when the call began, or the one a connect of this call          *)
(* succeeded on, which is then stored in the slot.                         *)

C27_ClosesSlotOnly ==
    call.op \in ClosingCalls =>
        \A i \in At(call.log, {"close"}) :
            \/ call.fdBefore >= 0 /\ call.log[i].fd = call.fdBefore
            \/ \E j \in At(call.log, {"connect"}) :
                  j < i /\ call.log[j].ret = 0 /\ call.log[j].fd = call.log[i].fd

(* C27, amended: a call closes at most one descriptor, an open one: the    *)
(* one its slot held, or the socket it made itself when the connect on it  *)
(* failed, which never reached the slot; the close ends the call and the   *)
(* slot is -1 after it, or freed with its device by poll__close; every     *)
(* send, sendmsg and recv is on the descriptor of the slot, which is open  *)
(* and not closed earlier in the call; a slot of a device in use holds -1  *)
(* or an open descriptor, and the two slots never the same one; poll__close *)
(* closes a connected channel once and makes no call for a disconnected    *)
(* one.                                                                    *)

C27_SlotsValid ==
    /\ (ctl.open /\ ctl.fd # -1) => ctl.fd \in DOMAIN socks
    /\ (fb_devs > 0 /\ m.fd_renderer # -1) => m.fd_renderer \in DOMAIN socks
    /\ (ctl.open /\ ctl.fd # -1 /\ fb_devs > 0) => ctl.fd # m.fd_renderer

C27_InCall ==
    call.op \in ClosingCalls =>
        /\ Cardinality(At(call.log, {"close"})) <= 1
        /\ \A i \in At(call.log, {"close"}) :
              /\ call.log[i].ret = 0
              /\ call.log[i].fd = RelaySlot(call)
              /\ call.log[i].fd \notin DOMAIN socks
              /\ i = Len(call.log)
              /\ call.op = "fb_post" => m.fd_renderer = -1
              /\ call.op \in SensorCalls => ctl.fd = -1
              /\ call.op = "poll__close" => ~ctl.open
              /\ call.fdBefore < 0 =>
                    (/\ call.op # "poll__close"
                     /\ \E j \in At(call.log, {"connect"}) :
                           j < i /\ call.log[j].fd = call.log[i].fd)
        /\ \A j \in Transfers(call.log) :
              /\ call.log[j].fd >= 0
              /\ call.log[j].fd = RelaySlot(call)
              /\ \A i \in At(call.log, {"close"}) : j < i
        /\ call.op = "poll__close" =>
              call.log = IF call.fdBefore >= 0
                         THEN <<Ev("close", call.fdBefore, 0, 0, <<>>, <<>>)>>
                         ELSE <<>>

\* the descriptor a call starts on is open
C27_StartsOpen ==
    (call'.op \in ClosingCalls /\ call'.fdBefore >= 0 /\ call' # call) =>
        call'.fdBefore \in DOMAIN socks

\* C27, amended: the parts together
C27_Closes == [](C27_SlotsValid /\ C27_InCall) /\ [][C27_StartsOpen]_vars

\* poll__close closed the connected sensor channel while the relay channel
\* stayed connected on another descriptor
C27_Witness ==
    /\ call.op = "poll__close"
    /\ call.fdBefore >= 0
    /\ call.log = <<Ev("close", call.fdBefore, 0, 0, <<>>, <<>>)>>
    /\ fb_devs > 0
    /\ m.fd_renderer \in DOMAIN socks
    /\ m.fd_renderer # call.fdBefore

====
